---- MODULE Spec2Model ----
(***************************************************************************)
(* AI-vs-human text classifier: the AITextDetector facade (detector.py),   *)
(* its model directory of three joblib files, and the two HTTP surfaces    *)
(* (app.py, fastapi_app.py) built on it.                                   *)
(*                                                                         *)
(* Probabilities are fixed-point integers in units of 1/Scale, so that the *)
(* rounding to four decimals done by the HTTP handlers is a real           *)
(* conversion.  A text is a sequence of characters over Chars.             *)
(***************************************************************************)
EXTENDS Integers, Sequences, FiniteSets, TLC

VARIABLES
    det,        \* detector name -> the fields of that AITextDetector object
    disk,       \* file name -> content of that file of the model directory
    pc,         \* HTTP surface -> "init" (module imported, startup not run) or "serving"
    out,        \* the last call or HTTP exchange: who, what, input, result
    completed   \* history: detector name -> a train or load_model call returned normally

vars == <<det, disk, pc, out, completed>>

-----------------------------------------------------------------------------
(* Bounds of the model *)

\* number of distinct well-formed training CSVs (a training run is named by its CSV)
NumDatasets == 2
\* longest request text, in characters
MaxLen == 3

-----------------------------------------------------------------------------
(* Program constants *)

MaxFeatures == 15000
NgramLo == 1
NgramHi == 3
\* alpha = 0.01, in hundredths
AlphaHundredths == 1
MinDf == 2
\* max_df = 0.9, in tenths
MaxDfTenths == 9
\* round(x, 4)
RoundDigits == 4
\* fixed-point resolution of a float probability: 1.0 = Scale units
Scale == 1000000

-----------------------------------------------------------------------------
(* Names *)

Surfaces == {"flask", "fastapi"}
LibDets == {"d1", "d2"}
Dets == LibDets \cup Surfaces
Files == {"vectorizer.joblib", "classifier.joblib", "config.joblib"}
Datasets == 1 .. NumDatasets

\* Python's None
None == [kind |-> "None"]
\* TfidfVectorizer(...) constructed but not fitted (detector.py line 42)
UnfittedVectorizer == [kind |-> "TfidfVectorizer", fitted |-> FALSE, run |-> 0]
\* the vectorizer after fit_transform on the CSV of run ds (line 52)
FittedVectorizer(ds) == [kind |-> "TfidfVectorizer", fitted |-> TRUE, run |-> ds]
\* the classifier after fit on the training split of run ds (lines 60-61)
FittedClassifier(ds) == [kind |-> "MultinomialNB", fitted |-> TRUE, run |-> ds]

\* the dict save_model dumps as config.joblib (lines 83-87): three of the five hyperparameters
ConfigOf(d) ==
    [kind |-> "dict", max_features |-> d.max_features,
     ngram_range |-> d.ngram_range, alpha |-> d.alpha]

\* AITextDetector.__init__
FreshDetector ==
    [max_features |-> MaxFeatures, ngram_range |-> <<NgramLo, NgramHi>>,
     alpha |-> AlphaHundredths, min_df |-> MinDf, max_df |-> MaxDfTenths,
     vectorizer |-> None, classifier |-> None, is_trained |-> FALSE]

-----------------------------------------------------------------------------
(* joblib: a file is absent, unreadable, or the dump of one object *)

AbsentFile == [state |-> "absent"]
CorruptFile == [state |-> "corrupt"]
\* joblib.dump(obj, path)
Dump(obj) == [state |-> "pickle", payload |-> obj]
\* os.path.exists(path)
Exists(f) == disk[f].state # "absent"
\* joblib.load(path) returns normally
Loadable(blob) == blob.state = "pickle"
\* the object joblib.load(path) returns
Loads(blob) == blob.payload
\* the exception joblib.load(path) raises otherwise
LoadError(blob) == IF blob.state = "absent" THEN "FileNotFoundError" ELSE "UnpicklingError"

\* what may lie in the model directory: dumps made by save_model, files removed or damaged
VectorizerObjects == {None, UnfittedVectorizer} \cup {FittedVectorizer(ds) : ds \in Datasets}
ClassifierObjects == {None} \cup {FittedClassifier(ds) : ds \in Datasets}
DiskImages ==
    {[f \in Files |->
        CASE f = "vectorizer.joblib" -> v
          [] f = "classifier.joblib" -> c
          [] OTHER -> g] :
        v \in {AbsentFile, CorruptFile} \cup {Dump(o) : o \in VectorizerObjects},
        c \in {AbsentFile, CorruptFile} \cup {Dump(o) : o \in ClassifierObjects},
        g \in {AbsentFile, CorruptFile, Dump(ConfigOf(FreshDetector))}}

-----------------------------------------------------------------------------
(* Texts *)

Chars == {" ", "a"}
RECURSIVE SeqsUpTo(_)
SeqsUpTo(n) ==
    IF n = 0 THEN {<<>>}
    ELSE LET S == SeqsUpTo(n - 1)
         IN  S \cup {Append(s, c) : s \in {t \in S : Len(t) = n - 1}, c \in Chars}
Texts == SeqsUpTo(MaxLen)

\* str.strip(): leading and trailing whitespace removed
RECURSIVE LStrip(_)
LStrip(s) == IF s # <<>> /\ Head(s) = " " THEN LStrip(Tail(s)) ELSE s
RECURSIVE RStrip(_)
RStrip(s) == IF s # <<>> /\ s[Len(s)] = " " THEN RStrip(SubSeq(s, 1, Len(s) - 1)) ELSE s
Strip(s) == RStrip(LStrip(s))

\* len(str.split()): number of maximal runs of non-whitespace characters
WordCount(s) ==
    Cardinality({i \in 1 .. Len(s) : s[i] # " " /\ (i = 1 \/ s[i - 1] = " ")})

-----------------------------------------------------------------------------
(* predict_proba: the score a fitted pair gives a text.  The learned       *)
(* parameters are not modelled; ProbTable lists representative outputs and *)
(* the pair and the text's token statistics select one of them.            *)

ProbTable ==
    << 500000,    \* 0.5 exactly: an empty feature vector under balanced priors
       900020,    \* certainty 0.80004
       900000,    \* certainty 0.8
       750000,    \* certainty 0.5
       600000,    \* certainty 0.2
       500001,
       50000,
       123456,
       Scale,
       350050 >>

AiProb(v, c, t) ==
    ProbTable[((3 * (v.run - 1) + 4 * (c.run - 1) + Len(t) + 2 * WordCount(t))
                 % Len(ProbTable)) + 1]

\* the number of features a vectorizer fitted on the CSV of run ds produces: the
\* n-grams that survive pruning, at most max_features (the first CSV is a
\* small one, the others reach the cap)
VocabSize(ds) == IF 10000 * ds < MaxFeatures THEN 10000 * ds ELSE MaxFeatures

\* (mutation of Label: the comparison made non-strict)
LabelAtLeastHalf(ai) == IF 2 * ai >= Scale THEN "AI" ELSE "Human"

\* label = "AI" if ai_prob > 0.5 else "Human" (detector.py line 112)
Label(ai) == IF 2 * ai > Scale THEN "AI" ELSE "Human"

\* (mutation of PredictCall: the is_trained guard of lines 102-103 left out)
PredictCallUnguarded(d, t) ==
    IF d.vectorizer = None
        THEN [exc |-> "AttributeError", msg |-> "'NoneType' object has no attribute 'transform'"]
    ELSE IF ~d.vectorizer.fitted
        THEN [exc |-> "NotFittedError", msg |-> "The TF-IDF vectorizer is not fitted"]
    ELSE IF d.classifier = None
        THEN [exc |-> "AttributeError", msg |-> "'NoneType' object has no attribute 'predict_proba'"]
    ELSE IF VocabSize(d.vectorizer.run) # VocabSize(d.classifier.run)
        THEN [exc |-> "ValueError", msg |-> "X has a different number of features than MultinomialNB is expecting"]
    ELSE LET ai == AiProb(d.vectorizer, d.classifier, t)
         IN  [exc |-> "none",
              val |-> [label |-> Label(ai), ai_prob |-> ai, human_prob |-> Scale - ai]]

\* AITextDetector.predict as a function of the detector's fields and the text:
\* exc = "none" and val = (label, ai_prob, human_prob), or the exception raised
PredictCall(d, t) ==
    IF ~d.is_trained THEN [exc |-> "ValueError", msg |-> "Model not loaded!"]
    ELSE IF d.vectorizer = None
        THEN [exc |-> "AttributeError", msg |-> "'NoneType' object has no attribute 'transform'"]
    ELSE IF ~d.vectorizer.fitted
        THEN [exc |-> "NotFittedError", msg |-> "The TF-IDF vectorizer is not fitted"]
    ELSE IF d.classifier = None
        THEN [exc |-> "AttributeError", msg |-> "'NoneType' object has no attribute 'predict_proba'"]
    ELSE IF VocabSize(d.vectorizer.run) # VocabSize(d.classifier.run)
        THEN [exc |-> "ValueError", msg |-> "X has a different number of features than MultinomialNB is expecting"]
    ELSE LET ai == AiProb(d.vectorizer, d.classifier, t)
         IN  [exc |-> "none",
              val |-> [label |-> Label(ai), ai_prob |-> ai, human_prob |-> Scale - ai]]

-----------------------------------------------------------------------------
(* The facade's operations, on the library detectors *)

NoOut == [op |-> "none"]

Init ==
    /\ det = [d \in Dets |-> FreshDetector]
    /\ disk = [f \in Files |-> AbsentFile]
    /\ pc = [s \in Surfaces |-> "init"]
    /\ out = NoOut
    /\ completed = [d \in Dets |-> FALSE]

\* (mutation of AllPresent: any() in place of all())
AnyPresent == \E f \in Files : Exists(f)

\* model_exists(model_dir)
AllPresent == \A f \in Files : Exists(f)

ModelExists(d) ==
    /\ out' = [op |-> "model_exists", who |-> d, exc |-> "none", val |-> AllPresent]
    /\ UNCHANGED <<det, disk, pc, completed>>

\* where a training run stops: the statement of train that raises, or "none"
TrainStops == {"read", "vectorize", "split", "evaluate", "none"}

\* the detector's fields when train(csv of run ds) stops at `stop`
TrainEffect(d, ds, stop) ==
    CASE stop = "read" -> d
      [] stop = "vectorize" -> [d EXCEPT !.vectorizer = UnfittedVectorizer]
      [] stop = "split" -> [d EXCEPT !.vectorizer = FittedVectorizer(ds)]
      [] stop = "evaluate" ->
            [d EXCEPT !.vectorizer = FittedVectorizer(ds),
                      !.classifier = FittedClassifier(ds)]
      [] OTHER ->
            [d EXCEPT !.vectorizer = FittedVectorizer(ds),
                      !.classifier = FittedClassifier(ds),
                      !.is_trained = TRUE]

Train(d, ds, stop) ==
    /\ det' = [det EXCEPT ![d] = TrainEffect(det[d], ds, stop)]
    /\ completed' = [completed EXCEPT ![d] = @ \/ stop = "none"]
    /\ out' = [op |-> "train", who |-> d,
               exc |-> IF stop = "none" THEN "none" ELSE "Exception"]
    /\ UNCHANGED <<disk, pc>>

\* the three files save_model writes for a detector with fields d
SavedImage(d) ==
    [f \in Files |->
        CASE f = "vectorizer.joblib" -> Dump(d.vectorizer)
          [] f = "classifier.joblib" -> Dump(d.classifier)
          [] OTHER -> Dump(ConfigOf(d))]

SaveModel(d) ==
    /\ disk' = SavedImage(det[d])
    /\ out' = [op |-> "save_model", who |-> d, exc |-> "none"]
    /\ UNCHANGED <<det, pc, completed>>

\* (mutation of LoadEffect: is_trained set before the files are read)
LoadEffectFlagFirst(d, dk) ==
    LET v == dk["vectorizer.joblib"]
        c == dk["classifier.joblib"]
        g == dk["config.joblib"]
        e == [d EXCEPT !.is_trained = TRUE]
    IN  IF ~Loadable(v) THEN e
        ELSE IF ~Loadable(c) THEN [e EXCEPT !.vectorizer = Loads(v)]
        ELSE IF ~Loadable(g)
            THEN [e EXCEPT !.vectorizer = Loads(v), !.classifier = Loads(c)]
        ELSE [e EXCEPT !.vectorizer = Loads(v), !.classifier = Loads(c),
                       !.max_features = Loads(g).max_features,
                       !.ngram_range = Loads(g).ngram_range,
                       !.alpha = Loads(g).alpha]

\* (mutation of LoadEffect: the classifier file is not read back)
LoadEffectNoClassifier(d, dk) ==
    LET v == dk["vectorizer.joblib"]
        g == dk["config.joblib"]
    IN  IF ~Loadable(v) THEN d
        ELSE IF ~Loadable(g) THEN [d EXCEPT !.vectorizer = Loads(v)]
        ELSE [d EXCEPT !.vectorizer = Loads(v),
                       !.max_features = Loads(g).max_features,
                       !.ngram_range = Loads(g).ngram_range,
                       !.alpha = Loads(g).alpha,
                       !.is_trained = TRUE]

\* the detector's fields after load_model on directory content dk: the
\* assignments of lines 92-98 in order, up to the first joblib.load that raises
LoadEffect(d, dk) ==
    LET v == dk["vectorizer.joblib"]
        c == dk["classifier.joblib"]
        g == dk["config.joblib"]
    IN  IF ~Loadable(v) THEN d
        ELSE IF ~Loadable(c) THEN [d EXCEPT !.vectorizer = Loads(v)]
        ELSE IF ~Loadable(g)
            THEN [d EXCEPT !.vectorizer = Loads(v), !.classifier = Loads(c)]
        ELSE [d EXCEPT !.vectorizer = Loads(v), !.classifier = Loads(c),
                       !.max_features = Loads(g).max_features,
                       !.ngram_range = Loads(g).ngram_range,
                       !.alpha = Loads(g).alpha,
                       !.is_trained = TRUE]

\* the exception load_model raises on dk, or "none"
LoadOutcome(dk) ==
    IF ~Loadable(dk["vectorizer.joblib"]) THEN LoadError(dk["vectorizer.joblib"])
    ELSE IF ~Loadable(dk["classifier.joblib"]) THEN LoadError(dk["classifier.joblib"])
    ELSE IF ~Loadable(dk["config.joblib"]) THEN LoadError(dk["config.joblib"])
    ELSE "none"

LoadModel(d) ==
    /\ det' = [det EXCEPT ![d] = LoadEffect(det[d], disk)]
    /\ completed' = [completed EXCEPT ![d] = @ \/ LoadOutcome(disk) = "none"]
    /\ out' = [op |-> "load_model", who |-> d, exc |-> LoadOutcome(disk)]
    /\ UNCHANGED <<disk, pc>>

Predict(d, t) ==
    /\ out' = [op |-> "predict", who |-> d] @@ PredictCall(det[d], t)
    /\ UNCHANGED <<det, disk, pc, completed>>

\* a new AITextDetector() bound to the name d
NewDetector(d) ==
    /\ det' = [det EXCEPT ![d] = FreshDetector]
    /\ completed' = [completed EXCEPT ![d] = FALSE]
    /\ out' = [op |-> "new", who |-> d, exc |-> "none"]
    /\ UNCHANGED <<disk, pc>>

\* the environment removes or damages one file of the model directory
DeleteFile(f) ==
    /\ Exists(f)
    /\ disk' = [disk EXCEPT ![f] = AbsentFile]
    /\ out' = NoOut
    /\ UNCHANGED <<det, pc, completed>>

DamageFile(f) ==
    /\ Exists(f)
    /\ disk[f] # CorruptFile
    /\ disk' = [disk EXCEPT ![f] = CorruptFile]
    /\ out' = NoOut
    /\ UNCHANGED <<det, pc, completed>>

-----------------------------------------------------------------------------
(* The HTTP surfaces *)

\* round(x, 4) on a value in units of 1/Scale: to the nearest multiple of
\* Quantum, a tie going to the even multiple
Quantum == Scale \div (10 ^ RoundDigits)
Round4(x) ==
    LET q == x \div Quantum
        r == x % Quantum
    IN  IF 2 * r < Quantum THEN q * Quantum
        ELSE IF 2 * r > Quantum THEN (q + 1) * Quantum
        ELSE IF q % 2 = 0 THEN q * Quantum ELSE (q + 1) * Quantum

Abs(x) == IF x < 0 THEN 0 - x ELSE x

\* (mutation of Band: the comparisons made non-strict)
BandInclusive(certainty) ==
    IF 10 * certainty >= 8 * Scale THEN "very_high"
    ELSE IF 10 * certainty >= 5 * Scale THEN "high"
    ELSE IF 10 * certainty >= 2 * Scale THEN "medium"
    ELSE "low"

\* the if/elif chain on certainty (app.py lines 70-77, fastapi_app.py lines 122-129)
Band(certainty) ==
    IF 10 * certainty > 8 * Scale THEN "very_high"
    ELSE IF 10 * certainty > 5 * Scale THEN "high"
    ELSE IF 10 * certainty > 2 * Scale THEN "medium"
    ELSE "low"

\* the JSON object of a successful POST /predict, from predict's return value
\* and the stripped text
Payload(val, text) ==
    LET certainty == Abs(val.ai_prob - val.human_prob)
    IN  [label |-> val.label,
         ai_probability |-> Round4(val.ai_prob),
         human_probability |-> Round4(val.human_prob),
         confidence |-> Band(certainty),
         certainty |-> Round4(certainty),
         text_length |-> Len(text),
         word_count |-> WordCount(text)]

\* a request body: the JSON object without a "text" key, or with a string
MissingText == [has_text |-> FALSE]
Body(t) == [has_text |-> TRUE, text |-> t]
Bodies == {MissingText} \cup {Body(t) : t \in Texts}

\* app.py predict(): the response to `body` of a process whose detector has fields d;
\* raw is the tuple detector.predict returned to the handler, not part of the response
FlaskResponse(d, body) ==
    IF ~d.is_trained THEN [status |-> 500, error |-> "Model not loaded"]
    ELSE IF ~body.has_text THEN [status |-> 400, error |-> "Missing \"text\" field"]
    ELSE LET text == Strip(body.text)
         IN  IF text = <<>> THEN [status |-> 400, error |-> "Text cannot be empty"]
             ELSE LET r == PredictCall(d, text)
                  IN  IF r.exc # "none" THEN [status |-> 500, error |-> r.msg]
                      ELSE [status |-> 200, json |-> Payload(r.val, text),
                            raw |-> r.val]

\* PredictRequest: the field is required and text_not_empty rejects a blank
\* string; a body that fails is answered 422 before the handler runs
Validates(body) == body.has_text /\ Strip(body.text) # <<>>

\* fastapi_app.py predict(): the HTTPException raised inside the try block is
\* caught by `except Exception` and raised again with detail str(e)
FastapiResponse(d, body) ==
    IF ~body.has_text THEN [status |-> 422, error |-> "field required"]
    ELSE IF ~Validates(body) THEN [status |-> 422, error |-> "Text cannot be empty"]
    ELSE LET text == Strip(body.text)
         IN  IF ~d.is_trained THEN [status |-> 500, error |-> "500: Model not loaded"]
             ELSE LET r == PredictCall(d, text)
                  IN  IF r.exc # "none" THEN [status |-> 500, error |-> r.msg]
                      ELSE [status |-> 200, json |-> Payload(r.val, text),
                            raw |-> r.val]

\* the startup load: try: if model_exists: load_model; except Exception: print
StartupEffect(d, dk) ==
    IF \A f \in Files : dk[f].state # "absent" THEN LoadEffect(d, dk) ELSE d

Startup(s) ==
    /\ pc[s] = "init"
    /\ pc' = [pc EXCEPT ![s] = "serving"]
    /\ det' = [det EXCEPT ![s] = StartupEffect(det[s], disk)]
    /\ completed' = [completed EXCEPT ![s] = AllPresent /\ LoadOutcome(disk) = "none"]
    /\ out' = [op |-> "startup", who |-> s,
               log |-> IF ~AllPresent THEN "No model found"
                       ELSE IF LoadOutcome(disk) = "none" THEN "Model loaded"
                       ELSE "Error loading model"]
    /\ UNCHANGED disk

\* GET /
Home(s) ==
    /\ pc[s] = "serving"
    /\ out' = [op |-> "home", who |-> s, status |-> 200,
               json |-> [status |-> "online", model_loaded |-> det[s].is_trained]]
    /\ UNCHANGED <<det, disk, pc, completed>>

\* GET /health
Health(s) ==
    /\ pc[s] = "serving"
    /\ out' = [op |-> "health", who |-> s, status |-> 200,
               json |-> [status |-> IF s = "flask" \/ det[s].is_trained
                                    THEN "healthy" ELSE "unhealthy",
                         model_loaded |-> det[s].is_trained]]
    /\ UNCHANGED <<det, disk, pc, completed>>

\* POST /predict on the Flask surface
FlaskPredict(body) ==
    /\ pc["flask"] = "serving"
    /\ out' = [op |-> "post_predict", who |-> "flask", req |-> body]
                 @@ FlaskResponse(det["flask"], body)
    /\ UNCHANGED <<det, disk, pc, completed>>

\* POST /predict on the FastAPI surface
FastapiPredict(body) ==
    /\ pc["fastapi"] = "serving"
    /\ out' = [op |-> "post_predict", who |-> "fastapi", req |-> body]
                 @@ FastapiResponse(det["fastapi"], body)
    /\ UNCHANGED <<det, disk, pc, completed>>

\* the operator's menu choice 1 in another process: train on the CSV of run
\* ds, then save_model into the shared directory
CliTrainAndSave(ds) ==
    /\ disk' = SavedImage(TrainEffect(FreshDetector, ds, "none"))
    /\ out' = NoOut
    /\ UNCHANGED <<det, pc, completed>>

-----------------------------------------------------------------------------
(* Specifications *)

\* one facade instance, the model directory, and an environment that removes
\* or damages files
Next ==
    \/ ModelExists("d1")
    \/ \E ds \in Datasets, stop \in TrainStops : Train("d1", ds, stop)
    \/ SaveModel("d1")
    \/ LoadModel("d1")
    \/ \E t \in Texts : Predict("d1", t)
    \/ NewDetector("d1")
    \/ \E f \in Files : DeleteFile(f)
    \/ \E f \in Files : DamageFile(f)

Spec == Init /\ [][Next]_vars

\* two facade instances sharing the model directory: d1 trains and saves, d2
\* is constructed anew and loads
NextRoundTrip ==
    \/ \E ds \in Datasets, stop \in TrainStops : Train("d1", ds, stop)
    \/ SaveModel("d1")
    \/ NewDetector("d2")
    \/ LoadModel("d2")
    \/ \E d \in LibDets, t \in Texts : Predict(d, t)

SpecRoundTrip == Init /\ [][NextRoundTrip]_vars

\* the two services, started over any content the model directory can have,
\* an operator who retrains in another process, and direct predict calls on a
\* facade instance d1 that never trained or loaded
InitHttp ==
    /\ det = [d \in Dets |-> FreshDetector]
    /\ disk \in DiskImages
    /\ pc = [s \in Surfaces |-> "init"]
    /\ out = NoOut
    /\ completed = [d \in Dets |-> FALSE]

NextHttp ==
    \/ \E s \in Surfaces : Startup(s)
    \/ \E s \in Surfaces : Home(s)
    \/ \E s \in Surfaces : Health(s)
    \/ \E body \in Bodies : FlaskPredict(body)
    \/ \E body \in Bodies : FastapiPredict(body)
    \/ \E ds \in Datasets : CliTrainAndSave(ds)
    \/ \E t \in Texts : Predict("d1", t)

SpecHttp == InitHttp /\ [][NextHttp]_vars

-----------------------------------------------------------------------------
(* Properties *)

\* text is present and empty after trimming
Blank(body) == body.has_text /\ Strip(body.text) = <<>>

\* success, 400-class validation failure, or 500 error
OutcomeClass(status) ==
    IF status = 200 THEN "success"
    ELSE IF status >= 400 /\ status < 500 THEN "validation"
    ELSE "error"

\* the banding as the specification words it, on a certainty in units of 1/Scale
StatedBand(c) ==
    IF 10 * c > 8 * Scale THEN "very_high"
    ELSE IF 10 * c > 5 * Scale THEN "high"
    ELSE IF 10 * c > 2 * Scale THEN "medium"
    ELSE "low"

\* C1: every POST /predict whose text is empty or whitespace-only is answered
\* with a 400-class status, on either surface, whether or not the model is loaded.
C1_BlankTextIs400 ==
    (out.op = "post_predict" /\ Blank(out.req))
        => (out.status >= 400 /\ out.status < 500)

\* C2: while no train or load_model call has completed on a detector, its
\* is_trained is false, predict on it (with any text) raises
\* ValueError("Model not loaded!") and returns nothing, and a POST /predict
\* that reaches the handler of a surface
\* holding such a detector (any body on Flask, a body that passes request
\* validation on FastAPI) is answered 500 with a non-empty message by a process
\* that is still serving.
C2_NotTrainedIsExplicit ==
    /\ \A d \in Dets : ~completed[d] => ~det[d].is_trained
    /\ (out.op = "predict" /\ ~completed[out.who])
        => (/\ out.exc = "ValueError"
            /\ out.msg = "Model not loaded!"
            /\ "val" \notin DOMAIN out
            /\ ~det[out.who].is_trained)
    /\ \A d \in Dets, t \in Texts :
        ~completed[d]
            => LET r == PredictCall(det[d], t)
               IN  /\ r.exc = "ValueError"
                   /\ r.msg = "Model not loaded!"
                   /\ "val" \notin DOMAIN r
    /\ (/\ out.op = "post_predict"
        /\ ~completed[out.who]
        /\ (out.who = "flask" \/ Validates(out.req)))
        => (/\ out.status = 500
            /\ "error" \in DOMAIN out
            /\ out.error # ""
            /\ pc[out.who] = "serving")

\* C2 witness: FastAPI, whose startup load stopped after the vectorizer was read,
\* answers a well-formed request with 500.
C2_Witness ==
    /\ out.op = "post_predict"
    /\ out.who = "fastapi"
    /\ ~completed["fastapi"]
    /\ det["fastapi"].vectorizer # None
    /\ Validates(out.req)
    /\ out.status = 500

\* C3: a predict call that returns has label "AI" exactly when ai_probability
\* is strictly above 0.5; at exactly 0.5 the label is "Human".
C3_LabelIffAboveHalf ==
    (out.op = "predict" /\ out.exc = "none")
        => (/\ out.val.label \in {"AI", "Human"}
            /\ (out.val.label = "AI") <=> (2 * out.val.ai_prob > Scale)
            /\ (2 * out.val.ai_prob = Scale) => out.val.label = "Human")

\* C3 witness: a predict call returned ai_probability exactly 0.5.
C3_Witness ==
    /\ out.op = "predict"
    /\ out.exc = "none"
    /\ 2 * out.val.ai_prob = Scale
    /\ out.val.label = "Human"

\* C4 as stated: the confidence of a successful response is the band of the
\* certainty field of that response (the value rounded to 4 decimals).
C4_BandOfReportedCertainty ==
    (out.op = "post_predict" /\ out.status = 200)
        => out.json.confidence = StatedBand(out.json.certainty)

\* C4 as amended: the confidence of a successful response is the band of the
\* unrounded certainty |ai_prob - human_prob| of the tuple predict returned, with
\* the boundaries 0.8, 0.5, 0.2 in the lower band; the certainty field is that
\* value rounded to 4 decimals.
C4_BandOfUnroundedCertainty ==
    (out.op = "post_predict" /\ out.status = 200)
        => LET c == Abs(out.raw.ai_prob - out.raw.human_prob)
           IN  /\ out.json.confidence = StatedBand(c)
               /\ out.json.certainty % Quantum = 0
               /\ 2 * Abs(out.json.certainty - c) <= Quantum

\* C4 witness: a successful response whose unrounded certainty is exactly 0.8
\* carries "high".
C4_Witness ==
    /\ out.op = "post_predict"
    /\ out.status = 200
    /\ 10 * Abs(out.raw.ai_prob - out.raw.human_prob) = 8 * Scale
    /\ out.json.confidence = "high"

\* C5: a surface whose startup finds a file of the model directory missing or
\* unreadable still reaches "serving" with is_trained false; from then on it
\* reports model_loaded false on GET / and GET /health and answers the POST
\* /predict requests that reach its handler with 500; and no step of a serving
\* surface changes its detector, whatever the directory holds later.
C5_FailedStartupStaysNotLoaded ==
    /\ [][\A s \in Surfaces :
            (pc[s] = "init" /\ pc'[s] # "init" /\ \E f \in Files : ~Loadable(disk[f]))
                => (pc'[s] = "serving" /\ ~det'[s].is_trained /\ ~completed'[s])]_vars
    /\ [](\A s \in Surfaces :
            (pc[s] = "serving" /\ ~completed[s])
                => (/\ ~det[s].is_trained
                    /\ (out.op \in {"home", "health"} /\ out.who = s)
                        => out.json.model_loaded = FALSE
                    /\ (/\ out.op = "post_predict"
                        /\ out.who = s
                        /\ (s = "flask" \/ Validates(out.req)))
                        => out.status = 500))
    /\ [][\A s \in Surfaces :
            pc[s] = "serving" => (pc'[s] = "serving" /\ det'[s] = det[s])]_vars

\* C5 witness: Flask started over a damaged directory; the directory has since
\* been replaced by a complete model, and Flask still answers 500.
C5_Witness ==
    /\ pc["flask"] = "serving"
    /\ ~completed["flask"]
    /\ \A f \in Files : Loadable(disk[f])
    /\ Loads(disk["vectorizer.joblib"]).kind = "TfidfVectorizer"
    /\ out.op = "post_predict"
    /\ out.who = "flask"
    /\ out.req.has_text
    /\ out.status = 500

\* C6: a detector that reports is_trained and holds a vectorizer and a
\* classifier holds a fitted pair from one training run.
C6_NeverPartiallyValid ==
    \A d \in LibDets :
        (/\ det[d].is_trained
         /\ det[d].vectorizer # None
         /\ det[d].classifier # None)
            => (/\ det[d].vectorizer.fitted
                /\ det[d].vectorizer.run = det[d].classifier.run)

\* C7: when a trained d1 has just saved and a newly constructed d2 then loads,
\* the load returns normally, d2 is trained, and d2.predict gives every text the
\* label and probabilities d1.predict gives it.
C7_RoundTrip ==
    [][(/\ out.op = "save_model"
        /\ out.who = "d1"
        /\ det["d1"].is_trained
        /\ det["d2"] = FreshDetector
        /\ out'.op = "load_model"
        /\ out'.who = "d2")
            => (/\ out'.exc = "none"
                /\ det'["d2"].is_trained
                /\ \A t \in Texts :
                    PredictCall(det'["d2"], t) = PredictCall(det'["d1"], t))]_vars

\* C7 witness: d2 has loaded what the trained d1 saved, and both predict.
C7_Witness ==
    /\ out.op = "load_model"
    /\ out.who = "d2"
    /\ out.exc = "none"
    /\ completed["d1"]
    /\ det["d1"].is_trained
    /\ disk = SavedImage(det["d1"])
    /\ det["d2"].is_trained
    /\ PredictCall(det["d2"], <<"a">>).exc = "none"
    /\ PredictCall(det["d1"], <<"a">>).exc = "none"

\* C8: model_exists returns true exactly when vectorizer.joblib,
\* classifier.joblib and config.joblib are all present, and the call changes
\* neither the files nor the detector.
C8_ModelExistsIffAllThree ==
    /\ [](out.op = "model_exists"
            => (out.val <=> (/\ disk["vectorizer.joblib"].state # "absent"
                             /\ disk["classifier.joblib"].state # "absent"
                             /\ disk["config.joblib"].state # "absent")))
    /\ [][out'.op = "model_exists" => (disk' = disk /\ det' = det)]_vars

\* C8 witness: after a save and the deletion of one file, model_exists returned
\* false with the other two files still in place.
C8_Witness ==
    /\ out.op = "model_exists"
    /\ out.val = FALSE
    /\ Cardinality({f \in Files : disk[f].state = "pickle"}) = 2
    /\ Cardinality({f \in Files : disk[f].state = "absent"}) = 1

\* C9: with both surfaces serving detectors in the same state, the response one
\* surface gave to a body and the response the other gives to that body are of
\* the same outcome class and, on success, carry the same values.
C9_SurfacesAgree ==
    (/\ out.op = "post_predict"
     /\ pc["flask"] = "serving"
     /\ pc["fastapi"] = "serving"
     /\ det["flask"] = det["fastapi"])
        => LET other == IF out.who = "flask"
                        THEN FastapiResponse(det["fastapi"], out.req)
                        ELSE FlaskResponse(det["flask"], out.req)
           IN  /\ OutcomeClass(out.status) = OutcomeClass(other.status)
               /\ out.status = 200 => out.json = other.json

\* C10: a detector that reports is_trained holds a vectorizer and a classifier
\* (neither is None).
C10_TrainedHoldsModel ==
    \A d \in LibDets :
        det[d].is_trained
            => (det[d].vectorizer # None /\ det[d].classifier # None)

====
